---- MODULE Spec2Model ----
(***************************************************************************)
(* State-machine model of the jm_cosmos plugin (src/main.py): identifier   *)
(* validation, the /jm request handler, the download coordinator           *)
(* (ComicDownloader.download_comic), the worker-thread retry loop          *)
(* (_download_with_retry), the packager (_compress_and_cleanup), the       *)
(* folder resolver (find_comic_folder) and the other commands that take an *)
(* identifier or touch the same directories.                               *)
(*                                                                         *)
(* Strings are sequences of one-character strings.  The external download  *)
(* library, the archive tool and the size of the data directory are        *)
(* outside the program: each of their outcomes is a nondeterministic       *)
(* choice.  The asyncio event loop runs a handler without interruption     *)
(* from one yield/await to the next, so every action below is the code     *)
(* between two such points; a worker thread's action is one blocking call. *)
(***************************************************************************)
EXTENDS Integers, Sequences, FiniteSets, TLC

\* ------------------------------------------------------------- bounds

\* Longest run of leading digits of a test string for validate_comic_id.
MaxPad == 11
\* Longest tail of arbitrary characters appended to that run.
MaxTail == 2
\* Longest configured domain_list.
MaxDomains == 4

\* --------------------------------------------------- program constants

\* len(comic_id) > 10 is rejected.
MaxIdLen == 10
\* ThreadPoolExecutor(max_workers=min(self.config.max_threads, 20)).
PoolCap == 20
\* CosmosConfig default "max_threads".
max_threads == 10
\* for backup_domain in self.config.domain_list[1:3]
BackupSliceEnd == 3

\* ------------------------------------------------------------- strings

AsciiDigits == {"0", "1", "2", "9"}
\* A decimal digit outside ASCII (ARABIC-INDIC DIGIT THREE), one character.
NonAsciiDigit == "U+0663"
\* What \d matches in a str pattern: every Unicode decimal digit.
UnicodeDigits == AsciiDigits \cup {NonAsciiDigit}
Letters == {"a", "T"}
NL == "\n"
\* What \w matches: alphanumerics and the underscore.
IsWordChar(c) == c \in UnicodeDigits \cup Letters \cup {"_"}

StartsWith(s, p) == Len(p) <= Len(s) /\ SubSeq(s, 1, Len(p)) = p

Contains(s, p) ==
    \E i \in 1..(Len(s) - Len(p) + 1) : SubSeq(s, i, i + Len(p) - 1) = p

\* \b at the gap before position p of s (p in 1..Len(s)+1).
WordBoundaryAt(s, p) ==
    LET l == p > 1 /\ IsWordChar(s[p - 1])
        r == p <= Len(s) /\ IsWordChar(s[p])
    IN  l # r

\* re.search(r"\b" + re.escape(t) + r"\b", s) for a t without metacharacters.
SearchWordBounded(s, t) ==
    \E i \in 1..(Len(s) - Len(t) + 1) :
        /\ SubSeq(s, i, i + Len(t) - 1) = t
        /\ WordBoundaryAt(s, i)
        /\ WordBoundaryAt(s, i + Len(t))

\* re.match(r"^\d+$", s): one or more \d, then the end of the string or a
\* single newline that ends the string ($ without re.MULTILINE).
MatchDigitsDollar(s) ==
    LET body == IF Len(s) > 0 /\ s[Len(s)] = NL
                THEN SubSeq(s, 1, Len(s) - 1) ELSE s
    IN  /\ Len(body) >= 1
        /\ \A i \in 1..Len(body) : body[i] \in UnicodeDigits

validate_comic_id(comic_id) ==
    IF ~MatchDigitsDollar(comic_id) THEN FALSE
    ELSE IF Len(comic_id) > MaxIdLen THEN FALSE
    ELSE TRUE

\* ------------------------------------------------------- configuration

\* Concurrent /jm handler invocations (coroutines) that are modelled.
NumSlots == 2
Slots == 1..NumSlots

\* Identifiers that are requested: two that pass validation, and tokens
\* that do not (a path fragment, an over-long number).  A token is one
\* element of message_str.strip().split(), so it holds no whitespace.
IdA == <<"1">>
IdB == <<"2">>
ValidIds == {IdA, IdB}
TraversalToken == <<".", ".", "/", "a">>
Tokens == ValidIds \cup {TraversalToken}

\* A folder left in downloads_dir by a release that used the ID_Title rule.
LegacyFolder == <<"1", "_", "T">>

NoStr == <<>>
CustomPwd == <<"p", "w">>
Passwords == {NoStr, CustomPwd}

\* config.domain_list: primary first.  Domains are numbered 0, 1, 2, ...
DomainLists == {[i \in 1..n |-> i - 1] : n \in 1..MaxDomains}

\* ---------------------------------------------------------------- state

VARIABLES
    custom_password,      \* config.custom_password ("" = derive jm<id>)
    domain_list,          \* config.domain_list
    downloading_comics,   \* ComicDownloader.downloading_comics
    folders,              \* names of the directories in downloads_dir
    archive,              \* archives_dir: identifier -> the file <id>.7z
    req,                  \* one record per /jm handler invocation
    badUse,               \* filesystem/network operations performed with an
                          \* identifier that fails validate_comic_id
    vIn, vOut,            \* validate_comic_id applied to a test string
    fIn, fOut,            \* find_comic_folder applied to a test directory
    thread_pool           \* config.max_threads, and the max_workers of the
                          \* ThreadPoolExecutor built from it

vars == <<custom_password, domain_list, downloading_comics, folders, archive,
          req, badUse, vIn, vOut, fIn, fOut, thread_pool>>

\* The file <id>.7z: st is "none" (no file), "writing" (opened by a packager,
\* not yet closed), "empty" (size 0), "broken" (size > 0, incomplete) or
\* "valid"; pwd and root are the password and the root entry it was written
\* with.
NoFile == [st |-> "none", pwd |-> NoStr, root |-> NoStr]
EmptyFile == [st |-> "empty", pwd |-> NoStr, root |-> NoStr]

\* No directory under test; no result yet (a value that is no folder name).
NoProbe == [id |-> NoStr, listing |-> <<>>]
Unset == <<"?">>

IdleReq ==
    [pc |-> "idle", id |-> NoStr, pwd_hint |-> NoStr, out |-> "none",
     calls |-> <<>>, perr |-> "none", res |-> "none", err |-> "none",
     pk |-> "none", folder |-> NoStr, sent |-> "none", sent_pwd |-> NoStr,
     quota |-> <<>>]

\* The default of "domain_list": three domains.
DefaultDomains == [i \in 1..BackupSliceEnd |-> i - 1]

\* A variant of the pool size: the cap, whatever is configured.
PoolWorkers_CapOnly(n) == PoolCap

\* max_workers=min(self.config.max_threads, 20)
PoolWorkers(n) == IF n < PoolCap THEN n ELSE PoolCap

\* ComicDownloader.__init__ for a configured "max_threads".
NewPool(n) == [max_threads |-> n, max_workers |-> PoolWorkers(n)]

InitState ==
    /\ thread_pool = NewPool(max_threads)
    /\ custom_password = NoStr
    /\ downloading_comics = {}
    /\ archive = [i \in ValidIds |-> NoFile]
    /\ req = [r \in Slots |-> IdleReq]
    /\ badUse = {}
    /\ vIn = NoStr
    /\ vOut = "unset"
    /\ fIn = NoProbe
    /\ fOut = Unset

\* The plugin as constructed with the default configuration and an empty
\* downloads directory.
Init ==
    /\ InitState
    /\ domain_list = DefaultDomains
    /\ folders = {}

\* The plugin as constructed with any configured domain list, over a
\* downloads directory that may hold a folder of an earlier release.
InitSolo ==
    /\ InitState
    /\ domain_list \in DomainLists
    /\ folders \in {{}, {LegacyFolder}}

\* --------------------------------------------------------- file system

\* os.path.exists(archive_path)
ArchiveExists_Never(a) == FALSE

ArchiveExists(a) == a.st # "none"

\* The sizes os.path.getsize can return for the file.
ArchiveSizes(a) ==
    CASE a.st = "empty" -> {0}
      [] a.st = "writing" -> {0, 1}
      [] OTHER -> {1}

\* os.path.exists(archive_path) and os.path.getsize(archive_path) > 0, for a
\* file no thread is writing.
ArchiveVerified(a) == ArchiveExists(a) /\ \A n \in ArchiveSizes(a) : n > 0

\* The orders in which os.listdir can enumerate a set of names.
Listings(S) ==
    {f \in [1..Cardinality(S) -> S] : \A i, j \in DOMAIN f : f[i] = f[j] => i = j}

\* A variant of the entry test: plain substring containment.
FolderMatches_Substring(item, id_str) == Contains(item, id_str)

\* The test of one directory entry in find_comic_folder.
FolderMatches(item, id_str) ==
    \/ item = id_str
    \/ StartsWith(item, id_str \o <<"_">>)
    \/ Contains(item, <<"[">> \o id_str \o <<"]">>)
    \/ (Contains(item, id_str) /\ SearchWordBounded(item, id_str))

\* A variant of find_comic_folder: whatever the directory lists first.
find_comic_folder_First(comic_id, listing) ==
    IF listing # <<>> THEN listing[1] ELSE comic_id

\* A variant of find_comic_folder without its step 1.
find_comic_folder_NoExact(comic_id, listing) ==
    LET hits == {i \in DOMAIN listing : FolderMatches(listing[i], comic_id)}
    IN  IF hits # {}
        THEN listing[CHOOSE i \in hits : \A j \in hits : i <= j]
        ELSE comic_id

\* ResourceManager.find_comic_folder: the name, under downloads_dir, of the
\* folder it returns; listing is os.listdir(downloads_dir).
find_comic_folder(comic_id, listing) ==
    LET dirs == {listing[i] : i \in DOMAIN listing}
        hits == {i \in DOMAIN listing : FolderMatches(listing[i], comic_id)}
    IN  IF comic_id \in dirs THEN comic_id
        ELSE IF hits # {}
             THEN listing[CHOOSE i \in hits : \A j \in hits : i <= j]
             ELSE comic_id

\* The identifiers whose archive file can be older than max_file_age_days.
OldCandidates(arch) == {i \in ValidIds : arch[i].st \notin {"none", "writing"}}

\* ResourceManager.cleanup_old_files: removes the files older than
\* max_file_age_days; evict is the set of identifiers whose archive is that
\* old.  A file being written is not old.  Directories are never removed.
cleanup_old_files(arch, evict) ==
    [i \in ValidIds |->
        IF i \in evict /\ arch[i].st \notin {"none", "writing"}
        THEN NoFile ELSE arch[i]]

\* A variant of the password rule: the derived password, always.
PackPassword_Default(custom, album_id) == <<"j", "m">> \o album_id

\* The password _compress_and_cleanup encrypts with.
PackPassword(custom, album_id) ==
    IF custom # NoStr THEN custom ELSE <<"j", "m">> \o album_id

\* What a filesystem or network operation op of command cmd adds to badUse
\* when it is performed with the identifier tok.
Use(cmd, op, tok) ==
    IF validate_comic_id(tok) THEN {} ELSE {[cmd |-> cmd, op |-> op]}

\* ------------------------------------------------- /jm: the handler

\* The handler has returned after its last message, outcome; the locals of
\* the invocation are gone.
Done(outcome) == [IdleReq EXCEPT !.pc = "done", !.out = outcome]

\* JMCosmosPlugin.download_comic up to its first yield: parse, validate,
\* compute the password hint, test the archive.  tok is args[1].  The
\* invocations are interchangeable: a new one takes the lowest free record.
JmBegin(r, tok) ==
    /\ req[r].pc \in {"idle", "done"}
    /\ \A q \in Slots : q < r => req[q].pc \notin {"idle", "done"}
    /\ IF ~validate_comic_id(tok)
       THEN /\ req' = [req EXCEPT ![r] = Done("validation_error")]
            /\ badUse' = badUse
       ELSE LET hint == IF custom_password # NoStr THEN custom_password
                        ELSE <<"j", "m">> \o tok
            IN  /\ req' = [req EXCEPT ![r] =
                    [IdleReq EXCEPT
                        !.pc = IF ArchiveExists(archive[tok])
                               THEN "exists_notice" ELSE "announced",
                        !.id = tok, !.pwd_hint = hint]]
                /\ badUse' = badUse \cup Use("jm", "stat", tok)
    /\ UNCHANGED <<thread_pool, custom_password, domain_list, downloading_comics, folders,
                   archive, vIn, vOut, fIn, fOut>>

\* send_the_file up to its first yield: os.path.getsize, then the
\* "file ready (password ...)" message; an exception ends the request with
\* the send-failure message.
SendReady(rec, arch) ==
    IF ArchiveExists(arch[rec.id])
    THEN [rec EXCEPT !.pc = "sending"]
    ELSE Done("send_failed")

\* The short-circuit path after the "archive exists" message.
JmSendExisting(r) ==
    /\ req[r].pc = "exists_notice"
    /\ req' = [req EXCEPT ![r] = SendReady(req[r], archive)]
    /\ UNCHANGED <<thread_pool, custom_password, domain_list, downloading_comics, folders,
                   archive, badUse, vIn, vOut, fIn, fOut>>

\* yield event.chain_result([File(...)]): the file at the archive path, as
\* it is now, goes to the user.
JmSendFile(r) ==
    /\ req[r].pc = "sending"
    /\ req' = [req EXCEPT ![r] =
            [Done("delivered") EXCEPT !.sent = archive[req[r].id].st,
                                      !.sent_pwd = archive[req[r].id].pwd,
                                      !.pwd_hint = req[r].pwd_hint]]
    /\ UNCHANGED <<thread_pool, custom_password, domain_list, downloading_comics, folders,
                   archive, badUse, vIn, vOut, fIn, fOut>>

\* ------------------------------------- ComicDownloader.download_comic

\* album_id in self.downloading_comics, under _download_lock.
AlreadyDownloading_Never(set, album_id) == FALSE

AlreadyDownloading(set, album_id) == album_id \in set

\* The finally clause: self.downloading_comics.discard(album_id).
Release_Skip(set, album_id) == set

Release(set, album_id) == set \ {album_id}

\* The pool of the default configuration.
PoolSize == PoolWorkers(max_threads)

WorkerPcs == {"primary", "backup", "pack", "packing"}

\* await self.downloader.download_comic(comic_id), from the call to the
\* point where the coroutine waits for the worker (or returns at once):
\* the membership test and add, the storage check with its one cleanup, the
\* submission to the pool.  has1/has2 are the two results of
\* check_storage_space, evict what cleanup_old_files finds old, submit_ok
\* whether run_in_executor accepts the task, checks the record of the
\* storage check (kept until a pool thread takes the task).
Dispatch(r, added, submit_ok, checks) ==
    IF submit_ok
    THEN /\ req' = [req EXCEPT ![r].pc = "queued", ![r].quota = checks]
         /\ downloading_comics' = added
    ELSE /\ req' = [req EXCEPT ![r] = Done("dispatch_failed")]
         /\ downloading_comics' = Release(added, req[r].id)

JmCallDownloader(r) ==
    /\ req[r].pc = "announced"
    /\ LET id == req[r].id
           added == downloading_comics \cup {id}
       IN
       IF AlreadyDownloading(downloading_comics, id)
       THEN /\ req' = [req EXCEPT ![r] = Done("already_downloading")]
            /\ UNCHANGED <<downloading_comics, archive>>
       ELSE \E has1 \in BOOLEAN :
            IF has1
            THEN /\ archive' = archive
                 /\ \E submit_ok \in BOOLEAN :
                        Dispatch(r, added, submit_ok, <<"space">>)
            ELSE \E evict \in SUBSET OldCandidates(archive), has2 \in BOOLEAN :
                 /\ archive' = cleanup_old_files(archive, evict)
                 /\ IF has2
                    THEN \E submit_ok \in BOOLEAN :
                            Dispatch(r, added, submit_ok,
                                     <<"full", "cleanup", "space">>)
                    ELSE /\ req' = [req EXCEPT ![r] = Done("storage_full")]
                         /\ downloading_comics' = Release(added, id)
    /\ UNCHANGED <<thread_pool, custom_password, domain_list, folders, badUse, vIn, vOut, fIn, fOut>>

\* A pool thread takes the task.
WorkerStart(r) ==
    /\ req[r].pc = "queued"
    /\ Cardinality({q \in Slots : req[q].pc \in WorkerPcs})
            < thread_pool.max_workers
    /\ req' = [req EXCEPT ![r].pc = "primary", ![r].quota = <<>>]
    /\ UNCHANGED <<thread_pool, custom_password, domain_list, downloading_comics, folders,
                   archive, badUse, vIn, vOut, fIn, fOut>>

\* The coroutine resumes with the worker's result: the finally clause
\* releases the identifier, then the handler reports a failure, or tests the
\* archive path and starts send_the_file.
JmResume(r) ==
    /\ req[r].pc = "finished"
    /\ downloading_comics' = Release(downloading_comics, req[r].id)
    /\ LET rec == [IdleReq EXCEPT !.id = req[r].id,
                                  !.pwd_hint = req[r].pwd_hint]
       IN  req' = [req EXCEPT ![r] =
            IF req[r].res = "fail" THEN Done("download_failed")
            ELSE IF ~ArchiveExists(archive[req[r].id])
            THEN Done("archive_missing")
            ELSE SendReady(rec, archive)]
    /\ UNCHANGED <<thread_pool, custom_password, domain_list, folders, archive, badUse,
                   vIn, vOut, fIn, fOut>>

\* ---------------------------- ComicDownloader._download_with_retry

\* "请求的本子不存在" in error_detail or "不存在" in error_detail
ShouldRetry(perr) == perr = "notfound"

Min(a, b) == IF a < b THEN a ELSE b

\* self.config.domain_list[1:3]
BackupDomains_All(dl) == SubSeq(dl, 2, Len(dl))

BackupDomains(dl) == SubSeq(dl, 2, Min(BackupSliceEnd, Len(dl)))

\* raise detail_error: the error the worker reports when the backups are
\* exhausted is the primary's, not the last backup's.
PropagatedError(primary_err, backup_err) == primary_err

\* A variant of the except clause: go on to the packager.
Fail_Pack(rec, e) == [rec EXCEPT !.pc = "pack"]

\* The worker's except clause: return False, "下载失败: ...".
Fail(rec, e) == [rec EXCEPT !.pc = "finished", !.res = "fail", !.err = e]

\* jmcomic.download_album with the "{id}" directory rule: on success the
\* library has written downloads_dir/<id>, or nothing at all.
Downloaded(dirs, album_id, wrote) ==
    IF wrote THEN dirs \cup {album_id} ELSE dirs

\* jmcomic.download_album(album_id, option) with the configured option.
DlPrimary(r) ==
    /\ req[r].pc = "primary"
    /\ \E outcome \in {"ok", "notfound", "other"}, wrote \in BOOLEAN :
        LET rec == [req[r] EXCEPT
                      !.calls = <<[dom |-> domain_list[1], ok |-> outcome = "ok"]>>,
                      !.perr = IF outcome = "ok" THEN "none" ELSE outcome]
        IN  IF outcome = "ok"
            THEN /\ req' = [req EXCEPT ![r] = [rec EXCEPT !.pc = "pack"]]
                 /\ folders' = Downloaded(folders, req[r].id, wrote)
            ELSE /\ folders' = folders
                 /\ req' = [req EXCEPT ![r] =
                        IF ShouldRetry(outcome) /\ BackupDomains(domain_list) # <<>>
                        THEN [rec EXCEPT !.pc = "backup"]
                        ELSE Fail(rec, outcome)]
    /\ UNCHANGED <<thread_pool, custom_password, domain_list, downloading_comics, archive,
                   badUse, vIn, vOut, fIn, fOut>>

\* One pass of the loop over the backup domains: a download with a fresh
\* option for that domain, the same base_dir and the "{id}" rule.
DlBackup(r) ==
    /\ req[r].pc = "backup"
    /\ \E ok \in BOOLEAN, wrote \in BOOLEAN :
        LET k == Len(req[r].calls)
            backups == BackupDomains(domain_list)
            rec == [req[r] EXCEPT
                      !.calls = Append(@, [dom |-> backups[k], ok |-> ok])]
        IN  IF ok
            THEN /\ req' = [req EXCEPT ![r] = [rec EXCEPT !.pc = "pack"]]
                 /\ folders' = Downloaded(folders, req[r].id, wrote)
            ELSE /\ folders' = folders
                 /\ req' = [req EXCEPT ![r] =
                        IF k < Len(backups) THEN rec
                        ELSE Fail(rec, PropagatedError(req[r].perr, "backup"))]
    /\ UNCHANGED <<thread_pool, custom_password, domain_list, downloading_comics, archive,
                   badUse, vIn, vOut, fIn, fOut>>

\* ---------------------------- ComicDownloader._compress_and_cleanup

\* A variant of the packager's return: the worker does not return.
Packed_Hang(rec, how) == [rec EXCEPT !.pk = how]

\* The worker returns (True, None) whatever the packager did: its except
\* clause swallows every exception.
Packed(rec, how) == [rec EXCEPT !.pc = "finished", !.res = "ok", !.pk = how]

\* The record of the download calls is kept until the packager starts.
Packing(rec) == [rec EXCEPT !.calls = <<>>, !.perr = "none"]

\* The packager up to the opening of the archive: resolve the folder, test
\* that it exists, choose the password, py7zr.SevenZipFile(archive_path, 'w').
\* opened: whether the archive file could be created (and truncated).
PackOpen(r) ==
    /\ req[r].pc = "pack"
    /\ \E listing \in Listings(folders), opened \in BOOLEAN :
        LET id == req[r].id
            comic_folder == find_comic_folder(id, listing)
        IN  IF comic_folder \notin folders
            THEN /\ req' = [req EXCEPT ![r] =
                        Packed(Packing(req[r]), "nofolder")]
                 /\ archive' = archive
            ELSE IF ~opened
            THEN /\ req' = [req EXCEPT ![r] =
                        Packed([Packing(req[r]) EXCEPT !.folder = comic_folder],
                               "open_failed")]
                 /\ archive' = archive
            ELSE /\ req' = [req EXCEPT ![r] =
                        [Packing(req[r]) EXCEPT !.pc = "packing",
                                                !.folder = comic_folder]]
                 /\ archive' = [archive EXCEPT ![id] =
                        [st |-> "writing",
                         pwd |-> PackPassword(custom_password, id),
                         root |-> comic_folder]]
    /\ UNCHANGED <<thread_pool, custom_password, domain_list, downloading_comics, folders,
                   badUse, vIn, vOut, fIn, fOut>>

\* Step 5 of the packager: shutil.rmtree(comic_folder) runs only when no
\* exception was raised and the archive exists with size > 0.
ShouldDelete_Always(raised, a) == TRUE

ShouldDelete(raised, a) == ~raised /\ ArchiveVerified(a)

\* archive.writeall(...) and the close of the with block, then step 5.
\* outcome: "ok" (a complete archive), "silent_empty" (no exception, but a
\* zero-length file), "exc_empty" / "exc_broken" (an exception that leaves a
\* zero-length / a truncated file).
PackWrite(r) ==
    /\ req[r].pc = "packing"
    /\ \E outcome \in {"ok", "silent_empty", "exc_empty", "exc_broken"} :
        LET id == req[r].id
            raised == outcome \in {"exc_empty", "exc_broken"}
            file == CASE outcome = "ok" -> [archive[id] EXCEPT !.st = "valid"]
                      [] outcome = "exc_broken" -> [archive[id] EXCEPT !.st = "broken"]
                      [] OTHER -> EmptyFile
            del == ShouldDelete(raised, file)
        IN  /\ archive' = [archive EXCEPT ![id] = file]
            /\ folders' = IF del THEN folders \ {req[r].folder} ELSE folders
            /\ req' = [req EXCEPT ![r] =
                    Packed(req[r], IF raised THEN "write_failed"
                                   ELSE IF del THEN "packed" ELSE "unverified")]
    /\ UNCHANGED <<thread_pool, custom_password, domain_list, downloading_comics, badUse,
                   vIn, vOut, fIn, fOut>>

\* ------------------------------------------------- the other commands

\* /jminfo: validate, client.get_album_detail, then (when no cover file is
\* cached) download_cover, which creates the resolved comic folder before it
\* fetches the image.  download_cover holds no await: it runs within this
\* step.  made: the album detail was fetched, no cover was cached and
\* download_cover got as far as os.makedirs.
JmInfo(tok) ==
    /\ IF ~validate_comic_id(tok)
       THEN UNCHANGED <<folders, badUse>>
       ELSE /\ badUse' = badUse \cup Use("jminfo", "network", tok)
            /\ \E made \in BOOLEAN :
                IF made
                THEN \E listing \in Listings(folders) :
                        folders' = folders \cup {find_comic_folder(tok, listing)}
                ELSE folders' = folders
    /\ UNCHANGED <<thread_pool, custom_password, domain_list, downloading_comics, archive,
                   req, vIn, vOut, fIn, fOut>>

\* /jmimg: create_client, preview_download_comic(client, comic_id, ...):
\* get_album_detail(comic_id), then os.makedirs(preview_downloads/<comic_id>).
\* The preview directory is outside downloads_dir and archives_dir.
\* fetched: get_album_detail returned an album.
JmImg(tok) ==
    /\ \E fetched \in BOOLEAN :
        badUse' = badUse \cup Use("jmimg", "network", tok)
                         \cup (IF fetched THEN Use("jmimg", "makedirs", tok)
                               ELSE {})
    /\ UNCHANGED <<thread_pool, custom_password, domain_list, downloading_comics, folders,
                   archive, req, vIn, vOut, fIn, fOut>>

\* /jmarchive: os.path.exists(get_archive_path(comic_id)), then the file's
\* size and ctime.
JmArchive(tok) ==
    /\ badUse' = badUse \cup Use("jmarchive", "stat", tok)
    /\ UNCHANGED <<thread_pool, custom_password, domain_list, downloading_comics, folders,
                   archive, req, vIn, vOut, fIn, fOut>>

\* /jmcleanup (a run that finds no old file changes nothing).
JmCleanup ==
    /\ \E evict \in SUBSET OldCandidates(archive) \ {{}} :
        archive' = cleanup_old_files(archive, evict)
    /\ UNCHANGED <<thread_pool, custom_password, domain_list, downloading_comics, folders,
                   req, badUse, vIn, vOut, fIn, fOut>>

\* /jmconfig password [pwd]
JmConfigPassword(pwd) ==
    /\ custom_password' = pwd
    /\ UNCHANGED <<thread_pool, domain_list, downloading_comics, folders, archive,
                   req,
                   badUse, vIn, vOut, fIn, fOut>>

\* ------------------------------------------------------ specification

\* The /jm pipeline of the handler invocation r, for requests of the
\* identifiers toks.
Pipeline(r, toks) ==
    \/ \E tok \in toks : JmBegin(r, tok)
    \/ JmSendExisting(r)
    \/ JmSendFile(r)
    \/ JmCallDownloader(r)
    \/ WorkerStart(r)
    \/ DlPrimary(r)
    \/ DlBackup(r)
    \/ PackOpen(r)
    \/ PackWrite(r)
    \/ JmResume(r)

\* Concurrent /jm requests under the default configuration (the storage
\* check of a request runs cleanup_old_files).
Next == \E r \in Slots : Pipeline(r, ValidIds)

Spec == Init /\ [][Next]_vars

\* One /jm request at a time, with /jminfo, /jmcleanup and /jmconfig, under
\* every configuration.
NextSolo ==
    \/ Pipeline(1, Tokens)
    \/ \E tok \in Tokens : JmInfo(tok)
    \/ JmCleanup
    \/ \E pwd \in Passwords : JmConfigPassword(pwd)

SpecSolo == InitSolo /\ [][NextSolo]_vars

\* The four commands that take an identifier, under the default
\* configuration.
NextCmd ==
    \/ Pipeline(1, Tokens)
    \/ \E tok \in Tokens : JmInfo(tok)
    \/ \E tok \in Tokens : JmImg(tok)
    \/ \E tok \in Tokens : JmArchive(tok)

SpecCmd == Init /\ [][NextCmd]_vars

\* Concurrent /jm requests under a configured "max_threads" below, at and
\* above the cap of the pool.
ThreadConfigs == {1, PoolCap + 1}

InitPool ==
    /\ thread_pool \in {NewPool(n) : n \in ThreadConfigs}
    /\ custom_password = NoStr
    /\ downloading_comics = {}
    /\ archive = [i \in ValidIds |-> NoFile]
    /\ req = [r \in Slots |-> IdleReq]
    /\ badUse = {}
    /\ domain_list = DefaultDomains
    /\ folders = {}
    /\ vIn = NoStr
    /\ vOut = "unset"
    /\ fIn = NoProbe
    /\ fOut = Unset

SpecPool == InitPool /\ [][Next]_vars

\* What a request that has started does next, whichever step that is.
Continue(r) ==
    \/ JmSendExisting(r)
    \/ JmSendFile(r)
    \/ JmCallDownloader(r)
    \/ WorkerStart(r)
    \/ DlPrimary(r)
    \/ DlBackup(r)
    \/ PackOpen(r)
    \/ PackWrite(r)
    \/ JmResume(r)

NextLive == \E r \in Slots : Pipeline(r, Tokens)

\* Concurrent /jm requests where every external call returns or raises, the
\* event loop resumes every handler that can continue and the pool runs
\* every submitted task.
SpecLive ==
    Init /\ [][NextLive]_vars /\ \A r \in Slots : WF_vars(Continue(r))

\* The end-to-end scenario: one request at a time in an environment that
\* works.  Every request that starts is answered with a file: storage has
\* room, the pool takes the task, a download call succeeds and leaves a
\* folder the resolver finds, the archive file can be created, written and
\* verified, and no archive is removed before it is sent.
Nominal ==
    \A r \in Slots :
        /\ req[r].out \in {"none", "delivered"}
        /\ req[r].pc = "pack" =>
                \E f \in folders : FolderMatches(f, req[r].id)
        /\ req[r].pc = "finished" => req[r].pk = "packed"
        /\ req[r].pc = "done" => req[r].sent = "valid"

NextE2E ==
    \/ \E tok \in ValidIds : JmBegin(1, tok) /\ Nominal'
    \/ JmSendExisting(1) /\ Nominal'
    \/ JmSendFile(1) /\ Nominal'
    \/ JmCallDownloader(1) /\ Nominal'
    \/ WorkerStart(1) /\ Nominal'
    \/ DlPrimary(1) /\ Nominal'
    \/ DlBackup(1) /\ Nominal'
    \/ PackOpen(1) /\ Nominal'
    \/ PackWrite(1) /\ Nominal'
    \/ JmResume(1) /\ Nominal'

\* The event loop resumes every handler that can continue, the pool runs
\* every submitted task, and requests keep arriving.
SpecE2E == InitSolo /\ [][NextE2E]_vars /\ WF_vars(NextE2E)

\* ------------------------------- validate_comic_id on arbitrary strings

Pad(n) == [i \in 1..n |-> "1"]
TailChars == {"0", NonAsciiDigit, NL, "/", ".", "a"}
Tails == UNION {[1..k -> TailChars] : k \in 0..MaxTail}
TestStrings == {Pad(n) \o t : n \in 0..MaxPad, t \in Tails}

InitValidate ==
    /\ thread_pool = NewPool(max_threads)
    /\ custom_password = NoStr
    /\ downloading_comics = {}
    /\ archive = [i \in ValidIds |-> NoFile]
    /\ req = [r \in Slots |-> IdleReq]
    /\ badUse = {}
    /\ domain_list = DefaultDomains
    /\ folders = {}
    /\ vIn \in TestStrings
    /\ vOut = "unset"
    /\ fIn = NoProbe
    /\ fOut = Unset

Validate ==
    /\ vOut = "unset"
    /\ vOut' = IF validate_comic_id(vIn) THEN "true" ELSE "false"
    /\ UNCHANGED <<thread_pool, custom_password, domain_list, downloading_comics, folders,
                   archive, req, badUse, vIn, fIn, fOut>>

NextValidate == Validate

SpecValidate == InitValidate /\ [][NextValidate]_vars

\* ---------------------------- find_comic_folder on arbitrary directories

\* Most directories in the downloads directory under test.
MaxDirs == 2

ProbeIds == {IdA, <<"1", "2">>}

\* Folder names: the bare identifiers, the decorated shapes ID_Title,
\* Title_ID, [ID]Title, Title[ID], "Title - ID", the identifier as a word
\* inside a title, and the identifier inside a longer number.
ProbeNames ==
    { <<"1">>, <<"1", "2">>, LegacyFolder, <<"T", "_", "1">>,
      <<"[", "1", "]", "T">>, <<"T", "[", "1", "]">>,
      <<"T", " ", "-", " ", "1">>, <<"T", " ", "1", " ", "a">>,
      <<"9", "1">> }

\* os.listdir(downloads_dir): up to MaxDirs distinct names, in any order.
ProbeListings ==
    UNION {{f \in [1..k -> ProbeNames] :
                \A i, j \in 1..k : f[i] = f[j] => i = j} : k \in 0..MaxDirs}

InitResolve ==
    /\ thread_pool = NewPool(max_threads)
    /\ custom_password = NoStr
    /\ downloading_comics = {}
    /\ archive = [i \in ValidIds |-> NoFile]
    /\ req = [r \in Slots |-> IdleReq]
    /\ badUse = {}
    /\ domain_list = DefaultDomains
    /\ folders = {}
    /\ vIn = NoStr
    /\ vOut = "unset"
    /\ fIn \in [id : ProbeIds, listing : ProbeListings]
    /\ fOut = Unset

Resolve ==
    /\ fOut = Unset
    /\ fOut' = find_comic_folder(fIn.id, fIn.listing)
    /\ UNCHANGED <<thread_pool, custom_password, domain_list, downloading_comics, folders,
                   archive, req, badUse, vIn, vOut, fIn>>

NextResolve == Resolve

SpecResolve == InitResolve /\ [][NextResolve]_vars

\* ------------------------------------------------------------- claims

\* An accepted download_comic call that has not yet returned to the handler.
ActivePcs == {"queued", "primary", "backup", "pack", "packing", "finished"}
Active(r) == req[r].pc \in ActivePcs
FreePcs == {"idle", "done"}

\* The file exists and os.path.getsize is > 0.
NonEmptyFile(a) == a.st \in {"valid", "broken"}

\* The packager failed to create, write or verify the archive.
PackFailures == {"open_failed", "write_failed", "unverified"}

\* What of the shared state a request can change.
Shared == <<downloading_comics, folders, archive>>

\* C1, first part: a call of download_comic(X) made while X is in
\* downloading_comics returns "already downloading" in that same step and
\* changes neither the set, the download directory nor the archives.
C1_Step ==
    \A r \in Slots :
        (req[r].pc = "announced" /\ req[r].id \in downloading_comics
            /\ req'[r] # req[r])
        => (req'[r] = Done("already_downloading") /\ UNCHANGED Shared)

\* C1, second part: no two accepted calls for the same identifier are active
\* at the same time.
C1_OneRunPerId ==
    \A r1, r2 \in Slots :
        (r1 # r2 /\ Active(r1) /\ Active(r2)) => req[r1].id # req[r2].id

\* C1: a second download_comic(X) while X is in flight fails fast, and at
\* most one download/packaging run per identifier is active at any time.
C1_SecondCallFailsFast == [](C1_OneRunPerId) /\ [][C1_Step]_vars

\* C1 witness: one request was rejected as "already downloading" while
\* another one is in flight.
C1_Witness ==
    \E r1, r2 \in Slots :
        /\ r1 # r2
        /\ req[r1].out = "already_downloading"
        /\ req[r2].pc \in {"primary", "backup", "pack", "packing"}

\* C2: every identifier in downloading_comics belongs to a download_comic
\* call that was accepted and has not returned: whatever path a call exits
\* by, once it has returned its identifier is no longer in the set (unless
\* another accepted call holds it), so nothing stays stuck in flight.
C2_ReleasedOnEveryExit ==
    \A x \in downloading_comics : \E r \in Slots : Active(r) /\ req[r].id = x

\* C2 witness: one call has exited by the storage-quota refusal and one by
\* a download failure, and the set is empty.
C2_Witness ==
    /\ downloading_comics = {}
    /\ \E r1, r2 \in Slots :
        req[r1].out = "storage_full" /\ req[r2].out = "download_failed"

\* C3: in the step in which the packager returns, a folder is removed from
\* the download directory only if the archive of that identifier then exists
\* with size > 0, and after a failure to create, write or verify the archive
\* the resolved folder is still there.
C3_Step ==
    \A r \in Slots :
        (req[r].pc \in {"pack", "packing"} /\ req'[r].pc = "finished")
        => /\ (folders' # folders => NonEmptyFile(archive'[req[r].id]))
           /\ (req'[r].pk \in PackFailures => req'[r].folder \in folders')

C3_DeleteOnlyAfterVerifiedArchive == [][C3_Step]_vars

\* C3 witness: the packager has returned after an exception while writing,
\* and the folder it resolved is still in the download directory.
C3_Witness ==
    \E r \in Slots :
        /\ req[r].pc = "finished"
        /\ req[r].pk = "write_failed"
        /\ req[r].folder \in folders

\* C4: a /jm X request that starts while a valid archive of X exists goes to
\* the "archive exists" path; from there its steps lead only to the sending
\* of the file or to a send failure, and none of them changes the in-flight
\* set, the download directory or the archives.
C4_Step ==
    \A r \in Slots :
        /\ (req[r].pc \in FreePcs /\ req'[r].pc \notin FreePcs
                /\ archive[req'[r].id].st = "valid")
           => req'[r].pc = "exists_notice"
        /\ (req[r].pc = "exists_notice" /\ req'[r] # req[r])
           => /\ req'[r].pc = "sending" \/ req'[r] = Done("send_failed")
              /\ UNCHANGED Shared
        /\ (req[r].pc = "sending" /\ req'[r] # req[r])
           => /\ req'[r].out = "delivered"
              /\ UNCHANGED Shared

C4_ExistingArchiveShortCircuits == [][C4_Step]_vars

\* C4 witness: a request is on the "archive exists" path and the archive of
\* its identifier is valid.
C4_Witness ==
    \E r \in Slots :
        req[r].pc = "exists_notice" /\ archive[req[r].id].st = "valid"

\* C5 (as claimed): no request delivers a zero-length archive.
C5_NeverDeliversEmptyArchive ==
    \A r \in Slots : req[r].out = "delivered" => req[r].sent # "empty"

\* C6 (as claimed): no command performs a filesystem or network operation
\* with an identifier that fails validation.
C6_ValidatedBeforeUse == badUse = {}

\* C7 (as claimed): validate_comic_id(s) is true exactly when s is a
\* non-empty string of ASCII digits of length at most 10.
C7_ValidateIffAsciiDigits ==
    vOut # "unset" =>
        (vOut = "true" <=>
            /\ Len(vIn) >= 1
            /\ Len(vIn) <= MaxIdLen
            /\ \A i \in 1..Len(vIn) : vIn[i] \in AsciiDigits)

\* C8 (as claimed): when the worker has returned success for X, the archive
\* of X exists with size > 0 and the folder resolved for X is gone.
C8_SuccessMeansArchived ==
    \A r \in Slots :
        (req[r].pc = "finished" /\ req[r].res = "ok")
        => /\ NonEmptyFile(archive[req[r].id])
           /\ req[r].pk = "packed"
           /\ req[r].folder \notin folders

\* C9 (as claimed): after a failure to create, write or verify the archive,
\* the request ends with an error message and sends no file, and the folder
\* is left in place.
C9_Step ==
    \A r \in Slots :
        (req[r].pc = "finished" /\ req[r].pk \in PackFailures
            /\ req'[r] # req[r])
        => /\ req'[r].pc = "done"
           /\ req'[r].out \in {"archive_missing", "download_failed"}
           /\ req[r].folder \in folders'

C9_PackagingFailureReported == [][C9_Step]_vars

\* The download calls of a worker are on record from the first call until
\* the packager starts or the handler resumes.
HasCalls(r) ==
    req[r].pc \in {"backup", "pack"} \/ (req[r].pc = "finished" /\ req[r].res = "fail")

\* The number of backup domains a worker may try: the entries 2 and 3 of
\* domain_list, as far as they exist.
NumBackups == IF Len(domain_list) - 1 < 2 THEN Len(domain_list) - 1 ELSE 2

\* What C10 says of a worker's download calls whatever starts the retry: the
\* first call is the primary's, call k (k = 2, 3) goes to entry k of
\* domain_list and never to the primary, there are at most 3 calls, only
\* the last may have succeeded, packaging follows a success, and a failure
\* reports the primary's error.
C10_Calls(r) ==
    LET c == req[r].calls IN
    /\ Len(c) >= 1 /\ Len(c) <= 3
    /\ \A k \in 1..Len(c) : c[k].dom = domain_list[k]
    /\ \A k \in 2..Len(c) : c[k].dom # domain_list[1]
    /\ \A k \in 1..(Len(c) - 1) : ~c[k].ok
    /\ req[r].pc = "pack" <=> c[Len(c)].ok
    /\ req[r].pc = "finished" => req[r].err = req[r].perr /\ req[r].perr # "none"

C11_Step ==
    \A i \in ValidIds :
        /\ (archive[i].st # "writing" /\ archive'[i].st = "writing")
           => archive'[i].pwd = IF custom_password = NoStr
                                THEN <<"j", "m">> \o i ELSE custom_password
        /\ (archive[i].st = "writing" /\ archive'[i].st \in {"valid", "broken"})
           => archive'[i].pwd = archive[i].pwd

C11_PasswordPolicy == [][C11_Step]_vars

\* C11 witness: one archive was packed under a custom password and carries
\* it, another was packed with none configured and carries "jm" + identifier.
C11_Witness ==
    /\ archive[IdA].st = "valid" /\ archive[IdA].pwd = CustomPwd
    /\ archive[IdB].st = "valid" /\ archive[IdB].pwd = <<"j", "m">> \o IdB

\* The directories of the directory under test.
ProbeDirs == {fIn.listing[i] : i \in DOMAIN fIn.listing}

EndsWith(s, p) ==
    Len(p) <= Len(s) /\ SubSeq(s, Len(s) - Len(p) + 1, Len(s)) = p

IsAlnum(c) == c \in UnicodeDigits \cup Letters

\* t occurs in s with no alphanumeric character next to it on either side.
BoundedOccurrence(s, t) ==
    \E i \in 1..(Len(s) - Len(t) + 1) :
        /\ SubSeq(s, i, i + Len(t) - 1) = t
        /\ i > 1 => ~IsAlnum(s[i - 1])
        /\ i + Len(t) <= Len(s) => ~IsAlnum(s[i + Len(t)])

\* The five exact-boundary shapes of a child name.
ExactShape(item, id) ==
    \/ item = id
    \/ StartsWith(item, id \o <<"_">>)
    \/ EndsWith(item, <<"_">> \o id)
    \/ StartsWith(item, <<"[">> \o id \o <<"]">>)
    \/ EndsWith(item, <<" ", "-", " ">> \o id)

\* C12: when the directory named exactly like the identifier exists, the
\* resolver returns it, whatever else is in the download directory and in
\* whatever order the directory is listed.
C12_ExactMatchFirst ==
    (fOut # Unset /\ fIn.id \in ProbeDirs) => fOut = fIn.id

\* C12 witness: the listing gives the decorated folder before the exact one,
\* and the resolver has returned the exact one.
C12_Witness ==
    /\ fIn.listing = <<LegacyFolder, IdA>>
    /\ fOut = IdA

\* C13: a folder the resolver returns holds the identifier with no
\* alphanumeric character next to it; a name that holds the identifier only
\* inside a longer alphanumeric run is never returned.
C13_WordBoundary ==
    (fOut # Unset /\ fOut \in ProbeDirs) => BoundedOccurrence(fOut, fIn.id)

\* C13 witness: the only folder holds the identifier inside a longer
\* number, and the resolver has returned no existing folder.
C13_Witness ==
    /\ fIn = [id |-> IdA, listing |-> << <<"9", "1">> >>]
    /\ fOut # Unset
    /\ fOut \notin ProbeDirs

\* C14 (as claimed): when the exact directory does not exist and the only
\* child has one of the five exact-boundary shapes, the resolver returns
\* that child.
C14_FiveShapes ==
    (/\ fOut # Unset
     /\ Len(fIn.listing) = 1
     /\ fIn.id \notin ProbeDirs
     /\ ExactShape(fIn.listing[1], fIn.id))
    => fOut = fIn.listing[1]

\* C15 (as claimed): with a child of an exact-boundary shape and a child
\* that holds the identifier only as a word, the resolver returns a child of
\* an exact-boundary shape, in whatever order the directory is listed.
C15_TierPriority ==
    (/\ fOut # Unset
     /\ fIn.id \notin ProbeDirs
     /\ \E e \in ProbeDirs : StartsWith(e, fIn.id \o <<"_">>)
     /\ \E w \in ProbeDirs :
            BoundedOccurrence(w, fIn.id) /\ ~ExactShape(w, fIn.id))
    => ExactShape(fOut, fIn.id)

\* C16 (as claimed): when the resolver finds no folder after a download that
\* reported success, the packager creates no archive and deletes nothing,
\* and the request ends with the "archive missing" error, which is not the
\* download-failure error.
C16_Step ==
    \A r \in Slots :
        /\ (req[r].pc = "pack" /\ req'[r].pk = "nofolder")
           => (archive' = archive /\ folders' = folders)
        /\ (req[r].pc = "finished" /\ req[r].pk = "nofolder"
                /\ req'[r] # req[r])
           => (req'[r] = Done("archive_missing")
                /\ archive' = archive /\ folders' = folders)

C16_ResolutionMissReported == [][C16_Step]_vars

\* C17, packaging: the packager that succeeds leaves a non-empty archive
\* whose root entry is the name of the folder it resolved, and that folder
\* is gone.
C17_PackStep ==
    \A r \in Slots :
        (req[r].pc = "packing" /\ req'[r].pc = "finished")
        => /\ archive'[req[r].id].st = "valid"
           /\ archive'[req[r].id].root = req[r].folder
           /\ req[r].folder \notin folders'

\* C17, second request: a request that finds the archive changes neither
\* the in-flight set, the download directory nor the archives.
C17_ShortStep ==
    \A r \in Slots :
        (req[r].pc \in {"exists_notice", "sending"} /\ req'[r] # req[r])
        => UNCHANGED Shared

\* C17: in the end-to-end scenario a /jm X request that finds no archive
\* ends with X.7z non-empty in the archive directory, rooted at the resolved
\* folder, the folder deleted, the file delivered and X not in flight; a
\* later /jm X request that finds the archive delivers it with no download
\* and no packaging.
C17_EndToEnd ==
    /\ [][C17_PackStep /\ C17_ShortStep]_vars
    /\ \A x \in ValidIds :
        (req[1].pc = "announced" /\ req[1].id = x)
        ~> (/\ req[1].out = "delivered"
            /\ req[1].sent = "valid"
            /\ archive[x].st = "valid"
            /\ BoundedOccurrence(archive[x].root, x)
            /\ archive[x].root \notin folders
            /\ x \notin downloading_comics)
    /\ \A x \in ValidIds :
        (req[1].pc = "exists_notice" /\ req[1].id = x)
        ~> (/\ req[1].out = "delivered"
            /\ req[1].sent = "valid"
            /\ archive[x].st = "valid")

\* C17 witness: the archive of an identifier was packed from the decorated
\* folder, the folder is gone, and a later request has found the archive and
\* is about to deliver it.
C17_Witness ==
    /\ archive[IdA].st = "valid"
    /\ archive[IdA].root = LegacyFolder
    /\ LegacyFolder \notin folders
    /\ req[1].pc = "sending"
    /\ req[1].id = IdA
    /\ IdA \notin downloading_comics

\* C18 (as claimed): no request delivers an archive that a packager has
\* opened and not yet closed.
C18_NeverDeliversWhileWriting ==
    \A r \in Slots : req[r].out = "delivered" => req[r].sent # "writing"

\* C19 (as claimed): when a download is started for an identifier, no
\* archive of that identifier exists.
C19_Step ==
    \A r \in Slots :
        (req[r].pc = "announced" /\ req'[r].pc = "queued")
        => archive'[req[r].id].st = "none"

C19_NoDownloadOverArchive == [][C19_Step]_vars

\* C20 (as claimed): from the acceptance of a /jm X request that goes on to
\* download until the worker's result has been handled, X is in
\* downloading_comics.
C20_InFlightSpan ==
    \A r \in Slots :
        req[r].pc \in {"announced"} \cup ActivePcs
        => req[r].id \in downloading_comics

\* The folders of the download directory that belong to an identifier.
FoldersOf(dirs, id) == {f \in dirs : BoundedOccurrence(f, id)}

\* C21 (as claimed): while an identifier is in flight, a step that is not a
\* step of the request that holds it neither creates nor deletes a folder of
\* that identifier.
C21_Step ==
    \A r \in Slots :
        (Active(r) /\ req[r].id \in downloading_comics /\ req'[r] = req[r])
        => FoldersOf(folders', req[r].id) = FoldersOf(folders, req[r].id)

C21_SingleWriter == [][C21_Step]_vars

\* C22 (as claimed): the password announced with a delivered archive is the
\* password the archive was encrypted with.
C22_AnnouncedPasswordMatches ==
    \A r \in Slots :
        (req[r].out = "delivered" /\ req[r].sent = "valid")
        => req[r].pwd_hint = req[r].sent_pwd

\* C23: the packager starts only after a download call has succeeded; it
\* resolves the folder before it opens the archive and deletes the folder
\* only after it has written the archive; a worker whose download calls all
\* failed creates no archive and deletes no folder, and its request ends
\* with the download-failure message.
C23_Step ==
    \A r \in Slots :
        req'[r] # req[r] =>
            /\ req'[r].pc = "pack" =>
                /\ req[r].pc \in {"primary", "backup"}
                /\ req'[r].calls[Len(req'[r].calls)].ok
            /\ \A i \in ValidIds :
                (archive[i].st # "writing" /\ archive'[i].st = "writing") =>
                    /\ req[r].pc = "pack"
                    /\ req[r].id = i
                    /\ req'[r].folder \in folders
                    /\ folders' = folders
            /\ folders \ folders' # {} =>
                /\ req[r].pc = "packing"
                /\ archive[req[r].id].st = "writing"
                /\ folders \ folders' = {req[r].folder}
            /\ (req'[r].pc = "finished" /\ req'[r].res = "fail") =>
                /\ req[r].pc \in {"primary", "backup"}
                /\ ~req'[r].calls[Len(req'[r].calls)].ok
                /\ archive' = archive
                /\ folders' = folders
            /\ (req[r].pc = "finished" /\ req[r].res = "fail") =>
                /\ req'[r] = Done("download_failed")
                /\ archive' = archive
                /\ folders' = folders

C23_PipelineOrder == [][C23_Step]_vars

\* C23 witness: a request has ended with the download-failure message and
\* there is neither an archive nor a folder.
C23_Witness ==
    /\ \E r \in Slots : req[r].out = "download_failed"
    /\ \A i \in ValidIds : archive[i].st = "none"
    /\ folders = {}

\* The pool threads that are running a task.
Running == {r \in Slots : req[r].pc \in WorkerPcs}

\* C24, steps: a request is rejected as "already downloading" only when its
\* own identifier is in flight, and a submitted task leaves the queue only
\* to be run.
C24_Step ==
    \A r \in Slots :
        /\ (req[r].pc = "announced" /\ req'[r] = Done("already_downloading"))
           => req[r].id \in downloading_comics
        /\ (req[r].pc = "queued" /\ req'[r] # req[r])
           => req'[r].pc = "primary"

\* C24, bound: no more tasks run than min(max_threads, 20).
C24_Bound ==
    /\ Cardinality(Running) <= thread_pool.max_threads
    /\ Cardinality(Running) <= PoolCap

C25_Step ==
    \A r \in Slots :
        (/\ req[r].pc = "announced"
         /\ req[r].id \notin downloading_comics
         /\ req'[r] # req[r])
        => /\ folders' = folders
           /\ \A i \in ValidIds : archive'[i] \in {archive[i], NoFile}
           /\ req'[r].pc = "queued" =>
                /\ req'[r].quota
                      \in {<<"space">>, <<"full", "cleanup", "space">>}
                /\ req'[r].quota = <<"space">> => archive' = archive
                /\ req[r].id \in downloading_comics'
           /\ req'[r].pc # "queued" =>
                /\ req'[r] \in {Done("storage_full"), Done("dispatch_failed")}
                /\ downloading_comics' = downloading_comics

C25_StorageQuota == [][C25_Step]_vars

\* C25 witness: the first check found the quota exceeded, cleanup ran once,
\* the second check found space and the task was submitted.
C25_Witness ==
    \E r \in Slots :
        /\ req[r].pc = "queued"
        /\ req[r].quota = <<"full", "cleanup", "space">>

\* The name of a strict child of a directory.
IsChildName(s) ==
    /\ Len(s) >= 1
    /\ s \notin {<<".">>, <<".", ".">>}
    /\ \A k \in 1..Len(s) : s[k] # "/"

\* C26: a folder leaves the download directory only in the step in which a
\* packager deletes the folder it resolved, which is a strict child of the
\* download directory that belongs to the packager's identifier; a step in
\* which cleanup_old_files removes a file removes no folder.
C26_Step ==
    /\ folders \ folders' # {} =>
        \E r \in Slots :
            /\ req[r].pc = "packing"
            /\ folders \ folders' = {req[r].folder}
            /\ IsChildName(req[r].folder)
            /\ IsChildName(req[r].id)
            /\ BoundedOccurrence(req[r].folder, req[r].id)
    /\ (\E i \in ValidIds :
            archive[i].st \notin {"none", "writing"} /\ archive'[i].st = "none")
       => folders' = folders

FinalOutcomes ==
    {"validation_error", "already_downloading", "download_failed",
     "storage_full", "dispatch_failed", "archive_missing", "delivered",
     "send_failed"}

\* C27, state: a request has an outcome exactly when it has ended, and the
\* outcome is one of the final messages.
C27_OneOutcome ==
    \A r \in Slots :
        /\ req[r].pc = "done" <=> req[r].out # "none"
        /\ req[r].out \in FinalOutcomes \cup {"none"}

\* C27: every /jm request that has started ends with exactly one final
\* outcome.
C27_Terminates ==
    /\ [](C27_OneOutcome)
    /\ \A r \in Slots : (req[r].pc \notin FreePcs) ~> (req[r].pc = "done")

\* C27 witness: one request has ended with the "archive missing" message
\* and another with a delivered file.
C27_Witness ==
    \E r1, r2 \in Slots :
        req[r1].out = "archive_missing" /\ req[r2].out = "delivered"

====
